---- MODULE Spec2Model ----
(***************************************************************************)
(* A model of the floral-formula parser (src/parse.rs) and of the          *)
(* canonical renderer (src/floral.rs).                                      *)
(*                                                                         *)
(* Text is a sequence of characters, each character a one-element string;  *)
(* a non-ASCII glyph is one character written by its code point, e.g.      *)
(* "U+2570".  Option<T> is a sequence of length 0 (None) or 1 (Some).      *)
(* Result<T> is a record [ok, val, err].  A panic is an outcome of its own.*)
(***************************************************************************)
EXTENDS Integers, Sequences, FiniteSets, TLC

VARIABLES
    pc,               \* position of the record pipeline: "input", "parsed", "rendered"
    input,            \* the nine notation fields handed to floral_from_str
    result,           \* what floral_from_str returned
    output,           \* what Formula's Display produced
    adnation_status,  \* the AdnationIndex filled while rendering
    fn,               \* the function a direct call exercises
    arg,              \* its argument
    ret               \* its return value, None until it has returned

vars == <<pc, input, result, output, adnation_status, fn, arg, ret>>

-----------------------------------------------------------------------------
(* Text helpers *)

None == <<>>

Some(v) == <<v>>

Ok(v) == [ok |-> TRUE, val |-> <<v>>, err |-> "none"]

Err(kind) == [ok |-> FALSE, val |-> <<>>, err |-> kind]

\* a string literal as a sequence of characters
Chars(s) == [i \in 1..Len(s) |-> SubSeq(s, i, i)]

\* str::contains(char)
Contains(s, ch) == \E i \in 1..Len(s) : s[i] = ch

\* str::replace(ch, "")
Replace(s, ch) == SelectSeq(s, LAMBDA c : c # ch)

RECURSIVE SplitFrom(_, _, _, _, _)
SplitFrom(s, sep, i, cur, acc) ==
    IF i > Len(s) THEN Append(acc, cur)
    ELSE IF s[i] = sep THEN SplitFrom(s, sep, i + 1, <<>>, Append(acc, cur))
    ELSE SplitFrom(s, sep, i + 1, Append(cur, s[i]), acc)

\* str::split(sep).collect::<Vec<&str>>(): always at least one piece
Split(s, sep) == SplitFrom(s, sep, 1, <<>>, <<>>)

RECURSIVE Join(_, _)
\* [String]::join(sep)
Join(strs, sep) ==
    IF Len(strs) = 0 THEN <<>>
    ELSE IF Len(strs) = 1 THEN strs[1]
    ELSE strs[1] \o sep \o Join(Tail(strs), sep)

\* n copies of the character ch
Repeat(ch, n) == [i \in 1..n |-> ch]

Digits == {"0", "1", "2", "3", "4", "5", "6", "7", "8", "9"}

DigitVal(c) ==
    CASE c = "0" -> 0 [] c = "1" -> 1 [] c = "2" -> 2 [] c = "3" -> 3
      [] c = "4" -> 4 [] c = "5" -> 5 [] c = "6" -> 6 [] c = "7" -> 7
      [] c = "8" -> 8 [] c = "9" -> 9

DigitChar(d) == <<"0", "1", "2", "3", "4", "5", "6", "7", "8", "9">>[d + 1]

RECURSIVE ToDecimal(_)
\* Display of an unsigned integer
ToDecimal(n) ==
    IF n < 10 THEN <<DigitChar(n)>>
    ELSE Append(ToDecimal(n \div 10), DigitChar(n % 10))

-----------------------------------------------------------------------------
(* u32 parsing.  A u32 is held in two decimal limbs, value = hi * Limb + lo, *)
(* so that the 32-bit limit is exact: u32::MAX = 4294967295.                 *)

Limb == 100000

U32MaxHi == 42949

U32MaxLo == 67295

RECURSIVE ParseDigits(_, _, _, _)
\* the digit loop of u32::from_str: checked_mul(10) then checked_add(digit)
ParseDigits(s, i, hi, lo) ==
    IF i > Len(s) THEN Ok([hi |-> hi, lo |-> lo])
    ELSE IF s[i] \notin Digits THEN Err("InvalidDigit")
    ELSE LET wide == lo * 10 + DigitVal(s[i])
             nhi  == hi * 10 + (wide \div Limb)
             nlo  == wide % Limb
         IN IF nhi > U32MaxHi \/ (nhi = U32MaxHi /\ nlo > U32MaxLo)
            THEN Err("PosOverflow")
            ELSE ParseDigits(s, i + 1, nhi, nlo)

\* str::parse::<u32>(): an optional leading '+', then at least one digit
ParseU32(s) ==
    IF Len(s) = 0 THEN Err("Empty")
    ELSE IF s = <<"+">> \/ s = <<"-">> THEN Err("InvalidDigit")
    ELSE ParseDigits(IF s[1] = "+" THEN Tail(s) ELSE s, 1, 0, 0)

-----------------------------------------------------------------------------
(* FloralPartNumber *)

Finite(n) == [tag |-> "Finite", n |-> n]

Fractional == [tag |-> "Fractional", n |-> 0]

Infinite == [tag |-> "Infinite", n |-> 0]

\* the upper end of the match arm `0..=30`
FiniteMax == 30

\* match num { 0..=30 => Finite(num), 31.. => Infinite }
FloralPartNumber_from_u32(num) ==
    IF num.hi = 0 /\ num.lo <= FiniteMax THEN Finite(num.lo) ELSE Infinite

\* let num = match s.parse::<u32>() { Ok(n) => n, Err(err) => return Err(ParseInt) }
FloralPartNumber_from_parsed(parsed) ==
    IF ~parsed.ok THEN Err("ParseInt")
    ELSE Ok(FloralPartNumber_from_u32(parsed.val[1]))

\* impl FromStr for FloralPartNumber
FloralPartNumber_from_str(s) ==
    IF s = <<"-">> \/ s = <<>> THEN Ok(Finite(0))
    ELSE IF s = Chars("inf") THEN Ok(Infinite)
    ELSE IF s = Chars("0.5") THEN Ok(Fractional)
    ELSE FloralPartNumber_from_parsed(ParseU32(s))

\* impl Display for FloralPartNumber
FloralPartNumber_fmt(n) ==
    CASE n.tag = "Finite" -> ToDecimal(n.n)
      [] n.tag = "Fractional" -> <<"U+00BD">>
      [] n.tag = "Infinite" -> <<"U+221E">>

-----------------------------------------------------------------------------
(* Symmetry, Part, Ovary, Fruit *)

Sym(tag, dir) == [tag |-> tag, dir |-> dir]

\* impl FromStr for Symmetry
Symmetry_from_str(s) ==
    CASE s = Chars("r") -> Ok(Sym("Radial", ""))
      [] s = Chars("up") -> Ok(Sym("Bilateral", "Up"))
      [] s = Chars("down") -> Ok(Sym("Bilateral", "Down"))
      [] s = Chars("left") -> Ok(Sym("Bilateral", "Left"))
      [] s = Chars("right") -> Ok(Sym("Bilateral", "Right"))
      [] s = Chars("upleft") -> Ok(Sym("Bilateral", "Upleft"))
      [] s = Chars("upright") -> Ok(Sym("Bilateral", "Upright"))
      [] s = Chars("downleft") -> Ok(Sym("Bilateral", "Downleft"))
      [] s = Chars("downright") -> Ok(Sym("Bilateral", "Downright"))
      [] s = Chars("a") -> Ok(Sym("Asymmetry", ""))
      [] s = Chars("s") -> Ok(Sym("Spiral", ""))
      [] s = Chars("d") -> Ok(Sym("Disymmetric", ""))
      [] OTHER -> Err("FromStr")

\* impl Display for BilateralType
BilateralType_fmt(b) ==
    CASE b = "Up" -> <<"U+2191">>
      [] b = "Down" -> <<"U+2193">>
      [] b = "Left" -> <<"U+2190">>
      [] b = "Right" -> <<"U+2192">>
      [] b = "Upleft" -> <<"U+2196">>
      [] b = "Upright" -> <<"U+2197">>
      [] b = "Downleft" -> <<"U+2199">>
      [] b = "Downright" -> <<"U+2198">>

\* impl Display for Symmetry
Symmetry_fmt(y) ==
    CASE y.tag = "Radial" -> <<"*">>
      [] y.tag = "Bilateral" -> <<"X", "(">> \o BilateralType_fmt(y.dir) \o <<")">>
      [] y.tag = "Asymmetry" -> <<"U+21AF">>
      [] y.tag = "Spiral" -> <<"U+21BB">>
      [] y.tag = "Disymmetric" -> <<"U+2194">>

\* enum Part, in declaration order
Parts == <<"Tepals", "Calyx", "Petals", "Stamens", "Carpels">>

PartSet == {Parts[i] : i \in 1..Len(Parts)}

\* impl FromStr for Part
Part_from_str(s) ==
    CASE s = <<"T">> -> Ok("Tepals")
      [] s = <<"K">> -> Ok("Calyx")
      [] s = <<"C">> -> Ok("Petals")
      [] s = <<"A">> -> Ok("Stamens")
      [] s = <<"G">> -> Ok("Carpels")
      [] OTHER -> Err("FromStr")

\* impl Display for Part
Part_fmt(p) ==
    CASE p = "Tepals" -> <<"T">>
      [] p = "Calyx" -> <<"K">>
      [] p = "Petals" -> <<"C">>
      [] p = "Stamens" -> <<"A">>
      [] p = "Carpels" -> <<"G">>

\* impl FromStr for Ovary
Ovary_from_str(s) ==
    CASE s = <<"s">> -> Ok("Superior")
      [] s = <<"i">> -> Ok("Inferior")
      [] OTHER -> Err("FromStr")

\* impl FromStr for Fruit
Fruit_from_str(s) ==
    CASE s = Chars("achene") \/ s = Chars("achenes") -> Ok("Achene")
      [] s = Chars("berry") \/ s = Chars("berries") -> Ok("Berry")
      [] s = Chars("berrylets") -> Ok("Berrylets")
      [] s = Chars("capsule") \/ s = Chars("fleshy capsule") -> Ok("Capsule")
      [] s = Chars("caryopsis") -> Ok("Caryopsis")
      [] s = Chars("dehiscent drupe") -> Ok("DDrupe")
      [] s = Chars("drupe") \/ s = Chars("drupes") -> Ok("Drupe")
      [] s = Chars("drupelets") -> Ok("Drupelets")
      [] s = Chars("follicle") \/ s = Chars("follicles") -> Ok("Follicle")
      [] s = Chars("indehiscent pod") -> Ok("IPod")
      [] s = Chars("legume") -> Ok("Legume")
      [] s = Chars("loment") -> Ok("Loment")
      [] s = Chars("nut") -> Ok("Nut")
      [] s = Chars("aggregate of nuts") -> Ok("AggregateOfNuts")
      [] s = Chars("pome") -> Ok("Pome")
      [] s = Chars("samara") \/ s = Chars("samaras") -> Ok("Samara")
      [] s = Chars("schizocarp") -> Ok("Schizocarp")
      [] s = Chars("silique") -> Ok("Silique")
      [] s = Chars("utricle") -> Ok("Utricle")
      [] s = <<"-">> \/ s = <<>> -> Ok("None")
      [] OTHER -> Err("FromStr")

\* impl Display for Fruit
Fruit_fmt(fr) ==
    CASE fr = "Achene" -> Chars("achene")
      [] fr = "Berry" -> Chars("berry")
      [] fr = "Berrylets" -> Chars("berrylets")
      [] fr = "Capsule" -> Chars("capsule")
      [] fr = "Caryopsis" -> Chars("caryopsis")
      [] fr = "DDrupe" -> Chars("dehiscent drupe")
      [] fr = "Drupe" -> Chars("drupe")
      [] fr = "Drupelets" -> Chars("drupelets")
      [] fr = "Follicle" -> Chars("follicle")
      [] fr = "IPod" -> Chars("indehiscent pod")
      [] fr = "Legume" -> Chars("legume")
      [] fr = "Loment" -> Chars("loment")
      [] fr = "Nut" -> Chars("nut")
      [] fr = "AggregateOfNuts" -> Chars("aggregate of nuts")
      [] fr = "Pome" -> Chars("pome")
      [] fr = "Samara" -> Chars("samara")
      [] fr = "Schizocarp" -> Chars("schizocarp")
      [] fr = "Silique" -> Chars("silique")
      [] fr = "Utricle" -> Chars("utricle")
      [] fr = "None" -> Chars("no fruit")

\* impl Display for Sterile
Sterile_fmt(st) == IF st = "Sterile" THEN <<"U+2022">> ELSE <<>>

-----------------------------------------------------------------------------
(* Formatting outcomes: the text written, or a panic with its message *)

Written(text) == [tag |-> "Ok", text |-> text, msg |-> ""]

Panic(msg) == [tag |-> "Panic", text |-> <<>>, msg |-> msg]

-----------------------------------------------------------------------------
(* Whorl and FloralPart *)

\* Whorl::new
Whorl_new(number, min, max, sterile, connation, connation_variation) ==
    [number |-> number, min |-> min, max |-> max,
     sterile |-> IF sterile THEN "Sterile" ELSE "Fertile",
     connation |-> connation, connation_variation |-> connation_variation]

\* the variation ignored, every connate whorl closed by `)`: a faulty variant of
\* Whorl_wrap
Whorl_wrap_Round(w, whorl) ==
    CASE w.connation -> Written(<<"(">> \o whorl \o <<")">>)
      [] ~w.connation /\ w.connation_variation ->
             Panic("can't have connation variation with no connation")
      [] OTHER -> Written(whorl)

\* match (self.connation, self.connation_variation) of Whorl's Display
Whorl_wrap(w, whorl) ==
    CASE w.connation /\ w.connation_variation -> Written(<<"(">> \o whorl \o <<"]">>)
      [] w.connation /\ ~w.connation_variation -> Written(<<"(">> \o whorl \o <<")">>)
      [] ~w.connation /\ w.connation_variation ->
             Panic("can't have connation variation with no connation")
      [] OTHER -> Written(whorl)

\* let number_or_range = match (number_op, min_op, max_op), both arms that write
Whorl_number_or_range(w) ==
    IF w.number # None THEN FloralPartNumber_fmt(w.number[1])
    ELSE FloralPartNumber_fmt(w.min[1]) \o <<"-">> \o FloralPartNumber_fmt(w.max[1])

\* impl Display for Whorl
Whorl_fmt(w) ==
    LET number_op == w.number # None
        min_op == w.min # None
        max_op == w.max # None
    IN IF ~((number_op /\ ~min_op /\ ~max_op) \/ (~number_op /\ min_op /\ max_op))
       THEN Panic("either number, or min/max must be specified")
       ELSE Whorl_wrap(w, Whorl_number_or_range(w)
                          \o (IF w.sterile = "Fertile" THEN <<>>
                              ELSE Sterile_fmt("Sterile")))

\* impl Default for FloralPart
FloralPart_default ==
    [part |-> "Tepals", connate |-> FALSE, connation_variation |-> FALSE,
     whorls |-> <<>>, ovary |-> None]

\* the diacritic written before the letter: a faulty variant of FloralPart_letter
FloralPart_letter_DiacriticFirst(p) ==
    IF p.ovary # None
    THEN CASE p.ovary[1] = "Superior" -> <<"U+0332">> \o Part_fmt(p.part)
           [] p.ovary[1] = "Inferior" -> <<"U+0305">> \o Part_fmt(p.part)
           [] p.ovary[1] = "Both" -> <<"U+0305", "U+0332">> \o Part_fmt(p.part)
    ELSE Part_fmt(p.part)

\* the `part` string of FloralPart's Display: the letter, then the ovary diacritic
FloralPart_letter(p) ==
    IF p.ovary # None
    THEN CASE p.ovary[1] = "Superior" -> Part_fmt(p.part) \o <<"U+0332">>
           [] p.ovary[1] = "Inferior" -> Part_fmt(p.part) \o <<"U+0305">>
           [] p.ovary[1] = "Both" -> Part_fmt(p.part) \o <<"U+0305", "U+0332">>
    ELSE Part_fmt(p.part)

\* match (self.connate, self.connation_variation) of FloralPart's Display
FloralPart_wrap(p, body) ==
    CASE p.connate /\ p.connation_variation -> Written(<<"(">> \o body \o <<"]">>)
      [] p.connate /\ ~p.connation_variation -> Written(<<"(">> \o body \o <<")">>)
      [] OTHER -> Written(body)

\* FloralPart's Display once every whorl.to_string() has returned or panicked
FloralPart_fmt_whorls(p, whorl_results) ==
    IF \E i \in 1..Len(whorl_results) : whorl_results[i].tag = "Panic"
    THEN whorl_results[CHOOSE i \in 1..Len(whorl_results) :
                           /\ whorl_results[i].tag = "Panic"
                           /\ \A j \in 1..(i - 1) : whorl_results[j].tag # "Panic"]
    ELSE FloralPart_wrap(p, FloralPart_letter(p)
                            \o Join([i \in 1..Len(whorl_results) |->
                                         whorl_results[i].text], <<"+">>))

\* impl Display for FloralPart
FloralPart_fmt(p) ==
    FloralPart_fmt_whorls(p, [i \in 1..Len(p.whorls) |-> Whorl_fmt(p.whorls[i])])

-----------------------------------------------------------------------------
(* parse.rs *)

\* fn parse_ovary
parse_ovary(s) ==
    IF s = <<>> \/ s = <<"-">> THEN Ok(None)
    ELSE LET sp == Split(s, ";")
             parsed == [i \in 1..Len(sp) |-> Ovary_from_str(sp[i])]
         IN IF \E i \in 1..Len(sp) : ~parsed[i].ok THEN Err("FromStr")
            ELSE IF Len(sp) > 1 THEN Ok(Some("Both"))
                 ELSE Ok(Some(parsed[1].val[1]))

\* impl Default for Adnation
Adnation_default == [variation |-> FALSE, parts |-> None]

\* the vector replaced instead of pushed to: a faulty variant of Adnation_add_part
Adnation_add_part_Replace(adnation, part) ==
    [adnation EXCEPT !.parts = Some(<<part>>)]

\* Adnation::add_part
Adnation_add_part(adnation, part) ==
    LET have == IF adnation.parts = None THEN <<>> ELSE adnation.parts[1]
    IN [adnation EXCEPT !.parts = Some(Append(have, part))]

RECURSIVE parse_adnation_loop(_, _, _)
\* the `for el in sp` loop of parse_adnation
parse_adnation_loop(sp, i, adnation) ==
    IF i > Len(sp) THEN Ok(adnation)
    ELSE IF sp[i] = <<"v">>
         THEN parse_adnation_loop(sp, i + 1, [adnation EXCEPT !.variation = TRUE])
         ELSE LET part == Part_from_str(sp[i])
              IN IF ~part.ok THEN Err(part.err)
                 ELSE parse_adnation_loop(sp, i + 1,
                                          Adnation_add_part(adnation, part.val[1]))

\* fn parse_adnation
parse_adnation(s) ==
    IF s = <<>> \/ s = <<"-">> THEN Ok(Adnation_default)
    ELSE parse_adnation_loop(Split(s, ";"), 1, Adnation_default)

RECURSIVE any_contains_vars_loop(_, _, _, _, _, _)
\* the `for el in mutable_string_vec.iter_mut()` loop of any_contains_vars
any_contains_vars_loop(vec, i, out, sterile, connate, variable) ==
    IF i > Len(vec)
    THEN [strings |-> out, sterile |-> sterile, connate |-> connate,
          variable |-> variable]
    ELSE LET st == sterile \/ Contains(vec[i], "s")
             e1 == IF st THEN Replace(vec[i], "s") ELSE vec[i]
             co == connate \/ Contains(e1, "c")
             e2 == IF co THEN Replace(e1, "c") ELSE e1
             va == variable \/ Contains(e2, "v")
             e3 == IF va THEN Replace(e2, "v") ELSE e2
         IN any_contains_vars_loop(vec, i + 1, Append(out, e3), st, co, va)

\* the flags found, the letters left in the text: a faulty variant of
\* any_contains_vars
any_contains_vars_KeepText(vec) ==
    [any_contains_vars_loop(vec, 1, <<>>, FALSE, FALSE, FALSE) EXCEPT !.strings = vec]

\* fn any_contains_vars
any_contains_vars(vec) == any_contains_vars_loop(vec, 1, <<>>, FALSE, FALSE, FALSE)

\* the range built without its max: a faulty variant of new_range_whorl
new_range_whorl_NoMax(min, max, upd) ==
    IF ~min.ok THEN Err(min.err)
    ELSE IF ~max.ok THEN Err(max.err)
    ELSE Ok(Whorl_new(None, Some(min.val[1]), None,
                      upd.sterile, upd.connate, upd.variable))

\* Whorl::new(None, Some(..?), Some(..?), sterile, connate, variable)
new_range_whorl(min, max, upd) ==
    IF ~min.ok THEN Err(min.err)
    ELSE IF ~max.ok THEN Err(max.err)
    ELSE Ok(Whorl_new(None, Some(min.val[1]), Some(max.val[1]),
                      upd.sterile, upd.connate, upd.variable))

\* the two FloralPartNumber::from_str of the range arm, on the stripped strings
range_whorl(upd) ==
    new_range_whorl(FloralPartNumber_from_str(upd.strings[1]),
                    FloralPartNumber_from_str(upd.strings[2]), upd)

\* the range arm of parse_floral_part_to_enum: Ok(whorl) or the first `?` error
parse_range_token(el) == range_whorl(any_contains_vars(Split(el, "-")))

\* Whorl::new(Some(..?), None, None, sterile, connate, variable)
new_count_whorl(number, upd) ==
    IF ~number.ok THEN Err(number.err)
    ELSE Ok(Whorl_new(Some(number.val[1]), None, None,
                      upd.sterile, upd.connate, upd.variable))

\* the FloralPartNumber::from_str of the plain-number arm
count_whorl(upd) == new_count_whorl(FloralPartNumber_from_str(upd.strings[1]), upd)

\* the plain-number arm of parse_floral_part_to_enum
parse_count_token(el) == count_whorl(any_contains_vars(<<el>>))

\* the token's whorl: a range if the token contains '-', else a plain number
parse_whorl_token(el) ==
    IF Contains(el, "-") THEN parse_range_token(el) ELSE parse_count_token(el)

RECURSIVE parse_floral_part_loop(_, _, _)
\* a failing token skipped instead of returned: a faulty variant of add_whorl
add_whorl_Skip(sp, i, floral, whorl) ==
    IF ~whorl.ok THEN parse_floral_part_loop(sp, i + 1, floral)
    ELSE parse_floral_part_loop(sp, i + 1,
                                [floral EXCEPT !.whorls = Append(@, whorl.val[1])])

\* floral.add_whorl(Whorl::new(.. ?)): the error returns, the whorl is pushed
add_whorl(sp, i, floral, whorl) ==
    IF ~whorl.ok THEN Err(whorl.err)
    ELSE parse_floral_part_loop(sp, i + 1,
                                [floral EXCEPT !.whorls = Append(@, whorl.val[1])])

\* the tokens `c` and `v` taken for whorl tokens as well: a faulty variant of
\* parse_floral_part_loop
parse_floral_part_loop_FlagWhorls(sp, i, floral) ==
    IF i > Len(sp) THEN Ok(Some(floral))
    ELSE IF sp[i] = <<"c">>
         THEN add_whorl(sp, i, [floral EXCEPT !.connate = TRUE], parse_whorl_token(sp[i]))
    ELSE IF sp[i] = <<"v">>
         THEN add_whorl(sp, i, [floral EXCEPT !.connation_variation = TRUE],
                        parse_whorl_token(sp[i]))
    ELSE add_whorl(sp, i, floral, parse_whorl_token(sp[i]))

\* the `for el in sp` loop of parse_floral_part_to_enum
parse_floral_part_loop(sp, i, floral) ==
    IF i > Len(sp) THEN Ok(Some(floral))
    ELSE IF Contains(sp[i], "-") THEN add_whorl(sp, i, floral, parse_whorl_token(sp[i]))
    ELSE IF sp[i] = <<"c">>
         THEN parse_floral_part_loop(sp, i + 1, [floral EXCEPT !.connate = TRUE])
    ELSE IF sp[i] = <<"v">>
         THEN parse_floral_part_loop(sp, i + 1,
                                     [floral EXCEPT !.connation_variation = TRUE])
    ELSE add_whorl(sp, i, floral, parse_whorl_token(sp[i]))

\* a field of "0" taken for an absent field: a faulty variant of field_is_absent
field_is_absent_Zero(s) == s = <<>> \/ s = <<"-">> \/ s = <<"0">>

\* the early return of parse_floral_part_to_enum: is the field absent?
field_is_absent(s) == s = <<>> \/ s = <<"-">>

\* fn parse_floral_part_to_enum
parse_floral_part_to_enum(s, floral_part, ovary) ==
    IF field_is_absent(s) THEN Ok(None)
    ELSE parse_floral_part_loop(Split(s, ";"), 1,
             [FloralPart_default EXCEPT !.ovary = ovary, !.part = floral_part])

\* the failing tokens dropped: a faulty variant of CollectResults
CollectResults_SkipErrors(results) ==
    Ok([i \in 1..Len(SelectSeq(results, LAMBDA r : r.ok)) |->
            SelectSeq(results, LAMBDA r : r.ok)[i].val[1]])

\* .iter().map(from_str).collect::<Result<Vec<_>>>(): the first error, or all values
CollectResults(results) ==
    IF \E i \in 1..Len(results) : ~results[i].ok
    THEN Err(results[CHOOSE i \in 1..Len(results) :
                         /\ ~results[i].ok
                         /\ \A j \in 1..(i - 1) : results[j].ok].err)
    ELSE Ok([i \in 1..Len(results) |-> results[i].val[1]])

\* the symmetry field of floral_from_str
parse_symmetry(s) ==
    LET sym_vec == Split(s, ";")
    IN CollectResults([i \in 1..Len(sym_vec) |-> Symmetry_from_str(sym_vec[i])])

\* the fruit field of floral_from_str
parse_fruit(s) ==
    LET sp == Split(s, ";")
    IN CollectResults([i \in 1..Len(sp) |-> Fruit_from_str(sp[i])])

\* Formula::default().with_symmetry(..) ... .build(), after every `?`
build_formula(parsed_sym, parsed_ovary, parsed_parts, parsed_adnation, parsed_fruit) ==
    IF ~parsed_sym.ok THEN Err(parsed_sym.err)
    ELSE IF ~parsed_ovary.ok THEN Err(parsed_ovary.err)
    ELSE IF ~parsed_parts[1].ok THEN Err(parsed_parts[1].err)
    ELSE IF ~parsed_parts[2].ok THEN Err(parsed_parts[2].err)
    ELSE IF ~parsed_parts[3].ok THEN Err(parsed_parts[3].err)
    ELSE IF ~parsed_parts[4].ok THEN Err(parsed_parts[4].err)
    ELSE IF ~parsed_parts[5].ok THEN Err(parsed_parts[5].err)
    ELSE IF ~parsed_adnation.ok THEN Err(parsed_adnation.err)
    ELSE IF ~parsed_fruit.ok THEN Err(parsed_fruit.err)
    ELSE Ok([symmetry |-> parsed_sym.val[1],
             tepals |-> parsed_parts[1].val[1],
             sepals |-> parsed_parts[2].val[1],
             petals |-> parsed_parts[3].val[1],
             stamens |-> parsed_parts[4].val[1],
             carpels |-> parsed_parts[5].val[1],
             fruit |-> parsed_fruit.val[1],
             adnation |-> parsed_adnation.val[1]])

\* the five floral-part fields of floral_from_str, in Parts order
part_fields(f) == <<f.tepals, f.calyx, f.petals, f.anthers, f.carpels>>

\* the ovary handed to every part: a faulty variant of parse_parts
parse_parts_OvaryEverywhere(f, parsed_ovary) ==
    [k \in 1..Len(Parts) |->
        parse_floral_part_to_enum(part_fields(f)[k], Parts[k],
            IF parsed_ovary.ok THEN parsed_ovary.val[1] ELSE None)]

\* the five calls of parse_floral_part_to_enum: only Carpels is given the ovary
parse_parts(f, parsed_ovary) ==
    [k \in 1..Len(Parts) |->
        parse_floral_part_to_enum(part_fields(f)[k], Parts[k],
            IF Parts[k] = "Carpels" /\ parsed_ovary.ok THEN parsed_ovary.val[1]
            ELSE None)]

\* floral_from_str from the parsed ovary on
floral_from_parsed_ovary(f, parsed_ovary) ==
    build_formula(parse_symmetry(f.symmetry), parsed_ovary,
                  parse_parts(f, parsed_ovary),
                  parse_adnation(f.adnation), parse_fruit(f.fruit))

\* fn floral_from_str
floral_from_str(f) == floral_from_parsed_ovary(f, parse_ovary(f.ovary))

-----------------------------------------------------------------------------
(* AdnationIndex: the bracket line *)

\* impl Default for AdnationIndex
AdnationIndex_default ==
    [variation |-> FALSE, tepals |-> None, sepals |-> None, petals |-> None,
     stamens |-> None, carpels |-> None]

\* AdnationIndex::set_adnation_status
set_adnation_status(status, part, index) ==
    CASE part = "Tepals" -> [status EXCEPT !.tepals = Some(index)]
      [] part = "Calyx" -> [status EXCEPT !.sepals = Some(index)]
      [] part = "Petals" -> [status EXCEPT !.petals = Some(index)]
      [] part = "Stamens" -> [status EXCEPT !.stamens = Some(index)]
      [] part = "Carpels" -> [status EXCEPT !.carpels = Some(index)]

\* AdnationVariation::CONSTANT: open-left, close-right, fill, junction
CharSetConstant == <<"U+2570", "U+256F", "U+2500", "U+2534">>

\* AdnationVariation::VARIABLE
CharSetVariable == <<"U+2514", "U+2518", "U+2504", "U+2534">>

\* the number of iterations of the range `from..to`
RangeLen(from, to) == IF to > from THEN to - from ELSE 0

\* merged.into_iter().flatten().collect()
merged_only_some(ai) ==
    LET merged == <<ai.tepals, ai.sepals, ai.petals, ai.stamens, ai.carpels>>
        RECURSIVE flat(_)
        flat(i) == IF i > Len(merged) THEN <<>> ELSE merged[i] \o flat(i + 1)
    IN flat(1)

\* the fill loop run over `a..b` instead of `a..b - 1`: a faulty variant of fill_between
fill_between_OneMore(character_set, a, b) == Repeat(character_set[3], RangeLen(a, b))

\* for _ in a..b - 1 { adnation.push(character_set[2]) }
fill_between(character_set, a, b) == Repeat(character_set[3], RangeLen(a, b - 1))

RECURSIVE fusions_loop(_, _, _, _)
\* an interior column drawn as fill: a faulty variant of fusions_loop
fusions_loop_NoJunction(character_set, cols, fusion, adnation) ==
    LET filled == adnation \o fill_between(character_set, cols[fusion], cols[fusion + 1])
    IN IF fusion + 1 = Len(cols) THEN Append(filled, character_set[2])
       ELSE fusions_loop(character_set, cols, fusion + 1,
                         Append(filled, character_set[3]))

\* the `while let Some(fusion) = adnation_iter.next()` loop, from iteration 1 on
\* (fusion is 0-based in the source, cols is 1-based here)
fusions_loop(character_set, cols, fusion, adnation) ==
    LET filled == adnation \o fill_between(character_set, cols[fusion], cols[fusion + 1])
    IN IF fusion + 1 = Len(cols) THEN Append(filled, character_set[2])
       ELSE fusions_loop(character_set, cols, fusion + 1,
                         Append(filled, character_set[4]))

\* the invariant set whatever the flag: a faulty variant of character_set
character_set_Invariant(ai) == CharSetConstant

\* let character_set = if self.variation { Self::VARIABLE } else { Self::CONSTANT }
character_set(ai) == IF ai.variation THEN CharSetVariable ELSE CharSetConstant

\* impl Display for AdnationIndex.  `b - 1` on a usize column of 0 overflows:
\* a panic in a debug build, an unbounded fill in a release build.
AdnationIndex_fmt(ai) ==
    LET cols == merged_only_some(ai)
    IN IF Len(cols) <= 1 THEN Written(<<>>)
       ELSE IF \E i \in 2..Len(cols) : cols[i] = 0
            THEN Panic("attempt to subtract with overflow")
       ELSE IF Len(cols) = 2
            THEN Written(Repeat(" ", cols[1]) \o <<character_set(ai)[1]>>
                         \o fill_between(character_set(ai), cols[1], cols[2])
                         \o <<character_set(ai)[2]>>)
       ELSE Written(fusions_loop(character_set(ai), cols, 1,
                                 Append(Repeat(" ", cols[1]), character_set(ai)[1])))

-----------------------------------------------------------------------------
(* impl Display for Formula *)

\* fn update_adnation_vec_and_format_index
update_adnation_vec_and_format_index(adnation_vec, part, floral_part, format_index, status) ==
    IF \E i \in 1..Len(adnation_vec) : adnation_vec[i] = part
    THEN IF floral_part.connate
         THEN set_adnation_status(status, part, format_index + 1)
         ELSE set_adnation_status(status, part, format_index)
    ELSE status

\* a stage of the serializer: the text written, the running index, the columns
Stage(text, format_index, status) ==
    [tag |-> "Ok", msg |-> "", text |-> text, format_index |-> format_index,
     status |-> status]

StagePanic(msg) ==
    [tag |-> "Panic", msg |-> msg, text |-> <<>>, format_index |-> 0,
     status |-> AdnationIndex_default]

\* the match arm (None, Some(p), Some(s)), cr and pr the two format! results
calyx_petals_stage(adnation_vec, s, p, format_index, status, cr, pr) ==
    IF cr.tag = "Panic" THEN StagePanic(cr.msg)
    ELSE IF pr.tag = "Panic" THEN StagePanic(pr.msg)
    ELSE LET calyx_string == <<",">> \o cr.text
             petals_string == <<",">> \o pr.text
             st1 == update_adnation_vec_and_format_index(
                        adnation_vec, "Calyx", s, format_index, status)
             fi1 == format_index + Len(calyx_string)
             st2 == update_adnation_vec_and_format_index(
                        adnation_vec, "Petals", p, fi1, st1)
             fi2 == fi1 + Len(petals_string)
         IN Stage(calyx_string \o petals_string, fi2, st2)

\* the match arm (Some(t), None, None), tr the format! result
tepals_stage(adnation_vec, t, format_index, status, tr) ==
    IF tr.tag = "Panic" THEN StagePanic(tr.msg)
    ELSE LET st1 == update_adnation_vec_and_format_index(
                        adnation_vec, "Tepals", t, format_index, status)
             tepal_string == <<",">> \o tr.text
         IN Stage(tepal_string, format_index + Len(tepal_string), st1)

\* the arm without its closing `format_index -= 3`: a faulty variant of
\* tepals_or_calyx_petals_stage
tepals_or_calyx_petals_stage_NoBackstep(adnation_vec, t, s, p, format_index, status, tr, cr, pr) ==
    IF tr.tag = "Panic" THEN StagePanic(tr.msg)
    ELSE IF cr.tag = "Panic" THEN StagePanic(cr.msg)
    ELSE IF pr.tag = "Panic" THEN StagePanic(pr.msg)
    ELSE LET tepal_string == <<",">> \o tr.text
             calyx_string == Chars("[or ") \o cr.text
             petals_string == <<",">> \o pr.text \o <<"]">>
             st1 == update_adnation_vec_and_format_index(
                        adnation_vec, "Tepals", t, format_index, status)
             fi1 == format_index + Len(tepal_string) + 3
             st2 == update_adnation_vec_and_format_index(
                        adnation_vec, "Calyx", s, fi1, st1)
             fi2 == fi1 + Len(calyx_string)
             st3 == update_adnation_vec_and_format_index(
                        adnation_vec, "Petals", p, fi2, st2)
         IN Stage(tepal_string \o calyx_string \o petals_string,
                  fi2 + Len(petals_string), st3)

\* the match arm (Some(t), Some(p), Some(s)), tr, cr, pr the three format! results
tepals_or_calyx_petals_stage(adnation_vec, t, s, p, format_index, status, tr, cr, pr) ==
    IF tr.tag = "Panic" THEN StagePanic(tr.msg)
    ELSE IF cr.tag = "Panic" THEN StagePanic(cr.msg)
    ELSE IF pr.tag = "Panic" THEN StagePanic(pr.msg)
    ELSE LET tepal_string == <<",">> \o tr.text
             calyx_string == Chars("[or ") \o cr.text
             petals_string == <<",">> \o pr.text \o <<"]">>
             st1 == update_adnation_vec_and_format_index(
                        adnation_vec, "Tepals", t, format_index, status)
             fi1 == format_index + Len(tepal_string) + 3
             st2 == update_adnation_vec_and_format_index(
                        adnation_vec, "Calyx", s, fi1, st1)
             fi2 == fi1 + Len(calyx_string)
             st3 == update_adnation_vec_and_format_index(
                        adnation_vec, "Petals", p, fi2, st2)
             fi3 == (fi2 + Len(petals_string)) - 3
         IN Stage(tepal_string \o calyx_string \o petals_string, fi3, st3)

\* format!("{}", part) of a part the match arm binds, None for one it does not
fmt_bound(opt) == IF opt = None THEN Written(<<>>) ELSE FloralPart_fmt(opt[1])

\* let calyx_perianth_or_tepals = match (&self.tepals, &self.petals, &self.sepals)
calyx_perianth_or_tepals(fm, adnation_vec, format_index, status, tr, cr, pr) ==
    LET t == fm.tepals
        p == fm.petals
        s == fm.sepals
    IN CASE t = None /\ p = None /\ s = None ->
                StagePanic("there should be at least one floral part")
         [] t = None /\ p = None /\ s # None ->
                StagePanic("petals should be specified if tepals are")
         [] t = None /\ p # None /\ s = None ->
                StagePanic("sepals should be specified if petals are")
         [] t = None /\ p # None /\ s # None ->
                calyx_petals_stage(adnation_vec, s[1], p[1], format_index, status,
                                   cr, pr)
         [] t # None /\ p = None /\ s = None ->
                tepals_stage(adnation_vec, t[1], format_index, status, tr)
         [] t # None /\ p = None /\ s # None ->
                StagePanic("petals should be specified if tepals and sepals are")
         [] t # None /\ p # None /\ s = None ->
                StagePanic("sepals are specified without petals and tepals")
         [] t # None /\ p # None /\ s # None ->
                tepals_or_calyx_petals_stage(adnation_vec, t[1], s[1], p[1],
                                             format_index, status, tr, cr, pr)

\* a stamens or carpels segment: `,<part>` and its column, r the format! result
part_stage(adnation_vec, part, floral_part, format_index, status, r) ==
    IF r.tag = "Panic" THEN StagePanic(r.msg)
    ELSE Stage(<<",">> \o r.text, format_index + Len(r.text) + 1,
               update_adnation_vec_and_format_index(
                   adnation_vec, part, floral_part, format_index, status))

\* let anthers = if let Some(a) = &self.stamens, and likewise the carpels
part_segment(adnation_vec, part, opt, before) ==
    IF opt = None THEN Stage(<<>>, before.format_index, before.status)
    ELSE part_stage(adnation_vec, part, opt[1], before.format_index, before.status,
                    FloralPart_fmt(opt[1]))

\* self.symmetry ... .join(" or ")
Formula_sym(fm) ==
    Join([i \in 1..Len(fm.symmetry) |-> Symmetry_fmt(fm.symmetry[i])], Chars(" or "))

\* self.adnation.parts.clone().unwrap_or_default()
Formula_adnation_vec(fm) ==
    IF fm.adnation.parts = None THEN <<>> ELSE fm.adnation.parts[1]

\* let fruit_string = format!(";{}", fruits)
Formula_fruit_string(fm) ==
    <<";">> \o Join([i \in 1..Len(fm.fruit) |-> Fruit_fmt(fm.fruit[i])], <<",">>)

\* carpels written before the stamens: a faulty variant of Formula_write
Formula_write_Swapped(fm, perianth, anthers, carpels, bracket) ==
    IF bracket.tag = "Panic" THEN StagePanic(bracket.msg)
    ELSE Stage(Formula_sym(fm) \o perianth.text \o carpels.text \o anthers.text
                   \o Formula_fruit_string(fm)
                   \o (IF bracket.text = <<>> THEN <<>> ELSE <<"LF">> \o bracket.text),
               carpels.format_index, carpels.status)

\* the newline written even before an empty bracket line: a faulty variant of
\* Formula_write
Formula_write_AlwaysNewline(fm, perianth, anthers, carpels, bracket) ==
    IF bracket.tag = "Panic" THEN StagePanic(bracket.msg)
    ELSE Stage(Formula_sym(fm) \o perianth.text \o anthers.text \o carpels.text
                   \o Formula_fruit_string(fm) \o <<"LF">> \o bracket.text,
               carpels.format_index, carpels.status)

\* let adnation_string, and the final write!
Formula_write(fm, perianth, anthers, carpels, bracket) ==
    IF bracket.tag = "Panic" THEN StagePanic(bracket.msg)
    ELSE Stage(Formula_sym(fm) \o perianth.text \o anthers.text \o carpels.text
                   \o Formula_fruit_string(fm)
                   \o (IF bracket.text = <<>> THEN <<>> ELSE <<"LF">> \o bracket.text),
               carpels.format_index, carpels.status)

\* from `let carpels = ...` on
Formula_fmt_carpels(fm, perianth, anthers, carpels) ==
    IF carpels.tag = "Panic" THEN carpels
    ELSE Formula_write(fm, perianth, anthers, carpels,
                       AdnationIndex_fmt(carpels.status))

\* from `let anthers = ...` on
Formula_fmt_anthers(fm, perianth, anthers) ==
    IF anthers.tag = "Panic" THEN anthers
    ELSE Formula_fmt_carpels(fm, perianth, anthers,
             part_segment(Formula_adnation_vec(fm), "Carpels", fm.carpels, anthers))

\* from the perianth match on
Formula_fmt_perianth(fm, perianth) ==
    IF perianth.tag = "Panic" THEN perianth
    ELSE Formula_fmt_anthers(fm, perianth,
             part_segment(Formula_adnation_vec(fm), "Stamens", fm.stamens, perianth))

\* fn fmt of impl Display for Formula
Formula_fmt(fm) ==
    Formula_fmt_perianth(fm,
        calyx_perianth_or_tepals(
            fm, Formula_adnation_vec(fm), Len(Formula_sym(fm)) + 1,
            [AdnationIndex_default EXCEPT !.variation = fm.adnation.variation],
            fmt_bound(fm.tepals), fmt_bound(fm.sepals), fmt_bound(fm.petals)))

-----------------------------------------------------------------------------
(* The record pipeline: floral_from_str, then to_string on the Formula *)

NoResult == [ok |-> FALSE, val |-> <<>>, err |-> "not returned"]

NoOutput == [tag |-> "none", msg |-> "", text |-> <<>>]

\* the nine &str arguments of floral_from_str
fields ==
    [symmetry |-> Chars(input.symmetry), tepals |-> Chars(input.tepals),
     calyx |-> Chars(input.calyx), petals |-> Chars(input.petals),
     anthers |-> Chars(input.anthers), carpels |-> Chars(input.carpels),
     ovary |-> Chars(input.ovary), fruit |-> Chars(input.fruit),
     adnation |-> Chars(input.adnation)]

\* records whose perianth, stamens, carpels and adnation vary over the shapes,
\* the connate flags and the whorl lists the notation allows
RenderInputs ==
    [symmetry : {"r", "r;up"},
     tepals : {"-", "2", "2;c", "v"},
     calyx : {"-", "2", "2;c"},
     petals : {"-", "2", "2;c", "v"},
     anthers : {"-", "2", "2;5s;c", "5v"},
     carpels : {"-", "2", "8-11c"},
     ovary : {"-", "i"},
     fruit : {"berry"},
     adnation : {"-", "T", "T;G", "T;A;G", "K;C", "C;A", "G;T", "v;T;K;C;A;G"}]

\* records in which each field is either well formed or holds one bad token
ErrorInputs ==
    [symmetry : {"s", "r;x"},
     tepals : {"8-11", "2;x"},
     calyx : {"-", "1-x"},
     petals : {"-", "x-1"},
     anthers : {"inf", "2;q;c"},
     carpels : {"0", "4z"},
     ovary : {"-", "s;i", "s;x"},
     fruit : {"-", "berry;nut", "berry;x"},
     adnation : {"-", "T;G", "T;x"}]

Init ==
    /\ pc = "input"
    /\ input \in RenderInputs \cup ErrorInputs
    /\ result = NoResult
    /\ output = NoOutput
    /\ adnation_status = AdnationIndex_default
    /\ fn = "none"
    /\ arg = <<>>
    /\ ret = None

\* parse::floral_from_str on the record's nine fields
Parse ==
    /\ pc = "input"
    /\ result' = floral_from_str(fields)
    /\ pc' = "parsed"
    /\ UNCHANGED <<input, output, adnation_status, fn, arg, ret>>

\* formula.to_string() on the Formula that floral_from_str returned
Render ==
    /\ pc = "parsed"
    /\ result.ok
    /\ LET r == Formula_fmt(result.val[1])
       IN /\ output' = [tag |-> r.tag, msg |-> r.msg, text |-> r.text]
          /\ adnation_status' = r.status
    /\ pc' = "rendered"
    /\ UNCHANGED <<input, result, fn, arg, ret>>

Next == Parse \/ Render

Spec == Init /\ [][Next]_vars

-----------------------------------------------------------------------------
(* Direct calls of one function on every argument of a bounded set *)

\* the longest token handed to FloralPartNumber::from_str
MaxTokenLen == 3

\* the longest ovary field
MaxOvaryLen == 3

\* the longest floral-part field
MaxFieldLen == 4

\* the rightmost column handed to the bracket renderer
MaxCol == 9

\* the leftmost column the serializer can record: format_index starts at
\* sym.chars().count() + 1
MinCol == 1

\* all texts of at most n characters over an alphabet
Texts(alphabet, n) == UNION {[1..k -> alphabet] : k \in 0..n}

NumberAlphabet == {"0", "1", "3", "5", "9", ".", "-", "+", "i", "n", "f", "x"}

\* digit strings around the 32-bit limit, and zero-padded ones
LongTokens ==
    {Chars("4294967295"), Chars("4294967296"), Chars("99999999999"),
     Chars("0000000000031"), Chars("0000000000030"), Chars("1000000")}

NumberTokens == Texts(NumberAlphabet, MaxTokenLen) \cup LongTokens

OvaryAlphabet == {"s", "i", ";", "-", "x"}

PartAlphabet == {"0", "2", "-", ";", "c", "v", "s", "x"}

\* the (floral_part, ovary) pairs floral_from_str passes
PartCalls ==
    {<<"Tepals", None>>, <<"Stamens", None>>, <<"Carpels", None>>,
     <<"Carpels", Some("Inferior")>>}

\* the AdnationIndex values of the serializer: columns grow from left to right
Columns == {None} \cup {Some(c) : c \in MinCol..MaxCol}

IndexArgs ==
    {ai \in [variation : BOOLEAN, tepals : Columns, sepals : Columns,
             petals : Columns, stamens : Columns, carpels : Columns] :
        \A i, j \in 1..Len(merged_only_some(ai)) :
            i < j => merged_only_some(ai)[i] <= merged_only_some(ai)[j]}

\* the pipeline variables of a specification that only calls one function
Idle ==
    /\ pc = "idle"
    /\ input = <<>>
    /\ result = NoResult
    /\ output = NoOutput
    /\ adnation_status = AdnationIndex_default

InitNumber == Idle /\ fn = "FloralPartNumber::from_str" /\ arg \in NumberTokens /\ ret = None

InitOvary ==
    Idle /\ fn = "parse_ovary" /\ arg \in Texts(OvaryAlphabet, MaxOvaryLen) /\ ret = None

InitPart ==
    /\ Idle
    /\ fn = "parse_floral_part_to_enum"
    /\ arg \in [s : Texts(PartAlphabet, MaxFieldLen), call : PartCalls]
    /\ ret = None

InitIndex == Idle /\ fn = "AdnationIndex::fmt" /\ arg \in IndexArgs /\ ret = None

CallNumber ==
    /\ fn = "FloralPartNumber::from_str"
    /\ ret = None
    /\ ret' = Some(FloralPartNumber_from_str(arg))
    /\ UNCHANGED <<pc, input, result, output, adnation_status, fn, arg>>

CallOvary ==
    /\ fn = "parse_ovary"
    /\ ret = None
    /\ ret' = Some(parse_ovary(arg))
    /\ UNCHANGED <<pc, input, result, output, adnation_status, fn, arg>>

CallPart ==
    /\ fn = "parse_floral_part_to_enum"
    /\ ret = None
    /\ ret' = Some(parse_floral_part_to_enum(arg.s, arg.call[1], arg.call[2]))
    /\ UNCHANGED <<pc, input, result, output, adnation_status, fn, arg>>

CallIndex ==
    /\ fn = "AdnationIndex::fmt"
    /\ ret = None
    /\ ret' = Some(AdnationIndex_fmt(arg))
    /\ UNCHANGED <<pc, input, result, output, adnation_status, fn, arg>>

SpecNumber == InitNumber /\ [][CallNumber]_vars

SpecOvary == InitOvary /\ [][CallOvary]_vars

SpecPart == InitPart /\ [][CallPart]_vars

SpecIndex == InitIndex /\ [][CallIndex]_vars

\* the longest whorl token over WhorlAlphabet
MaxWhorlTokenLen == 3

\* the most whorls of a FloralPart handed to its Display
MaxWhorls == 2

\* the longest adnation field
MaxAdnationLen == 3

\* the longest symmetry field
MaxSymmetryLen == 4

WhorlAlphabet == {"5", "8", "1", "-", "c", "s", "v"}

\* the tokens of the notation's examples, longer than MaxWhorlTokenLen
LongWhorlTokens == {Chars("8-11c"), Chars("0.5s"), Chars("infc")}

\* the tokens that reach a Whorl::new of parse_floral_part_to_enum: every token
\* of a split field but `c` and `v`
WhorlTokens ==
    (Texts(WhorlAlphabet, MaxWhorlTokenLen) \cup LongWhorlTokens) \ {<<"c">>, <<"v">>}

\* whorls of each kind: a count, a sterile count, a connate range, a variably
\* connate count, and a count with connation_variation alone
WhorlValues ==
    {Whorl_new(Some(Finite(2)), None, None, FALSE, FALSE, FALSE),
     Whorl_new(Some(Finite(5)), None, None, TRUE, FALSE, FALSE),
     Whorl_new(None, Some(Finite(8)), Some(Finite(11)), FALSE, TRUE, FALSE),
     Whorl_new(Some(Infinite), None, None, FALSE, TRUE, TRUE),
     Whorl_new(Some(Finite(5)), None, None, FALSE, FALSE, TRUE)}

FloralParts ==
    [part : PartSet, connate : BOOLEAN, connation_variation : BOOLEAN,
     whorls : UNION {[1..k -> WhorlValues] : k \in 0..MaxWhorls},
     ovary : {None, Some("Superior"), Some("Inferior"), Some("Both")}]

AdnationAlphabet == {"T", "K", "G", "v", ";", "-", "x"}

\* fields naming the two parts outside AdnationAlphabet, and all five parts
LongAdnations == {Chars("C;A"), Chars("T;K;C;A;G"), Chars("v;T;K;C;A;G")}

SymmetryAlphabet == {"r", "a", "u", "p", ";", "x"}

\* fields holding the tokens outside SymmetryAlphabet
LongSymmetries ==
    {Chars("s"), Chars("d"), Chars("down"), Chars("left"), Chars("right"),
     Chars("upleft"), Chars("upright"), Chars("downleft"), Chars("downright"),
     Chars("r;down;d"), Chars("s;upright"), Chars("R"), Chars("up;sideways")}

InitWhorl == Idle /\ fn = "Whorl::fmt" /\ arg \in WhorlTokens /\ ret = None

InitFloralPart == Idle /\ fn = "FloralPart::fmt" /\ arg \in FloralParts /\ ret = None

InitAdnation ==
    /\ Idle
    /\ fn = "parse_adnation"
    /\ arg \in Texts(AdnationAlphabet, MaxAdnationLen) \cup LongAdnations
    /\ ret = None

InitSymmetry ==
    /\ Idle
    /\ fn = "parse_symmetry"
    /\ arg \in Texts(SymmetryAlphabet, MaxSymmetryLen) \cup LongSymmetries
    /\ ret = None

\* a whorl arm of parse_floral_part_to_enum on one token
ParseWhorl ==
    /\ fn = "Whorl::fmt"
    /\ ret = None
    /\ ret' = Some(parse_whorl_token(arg))
    /\ UNCHANGED <<pc, input, result, output, adnation_status, fn, arg>>

\* whorl.to_string() on the Whorl the arm built
FmtWhorl ==
    /\ fn = "Whorl::fmt"
    /\ ret # None
    /\ ret[1].ok
    /\ output = NoOutput
    /\ output' = Whorl_fmt(ret[1].val[1])
    /\ UNCHANGED <<pc, input, result, adnation_status, fn, arg, ret>>

CallFloralPart ==
    /\ fn = "FloralPart::fmt"
    /\ ret = None
    /\ ret' = Some(FloralPart_fmt(arg))
    /\ UNCHANGED <<pc, input, result, output, adnation_status, fn, arg>>

CallAdnation ==
    /\ fn = "parse_adnation"
    /\ ret = None
    /\ ret' = Some(parse_adnation(arg))
    /\ UNCHANGED <<pc, input, result, output, adnation_status, fn, arg>>

CallSymmetry ==
    /\ fn = "parse_symmetry"
    /\ ret = None
    /\ ret' = Some(parse_symmetry(arg))
    /\ UNCHANGED <<pc, input, result, output, adnation_status, fn, arg>>

NextWhorl == ParseWhorl \/ FmtWhorl

SpecWhorl == InitWhorl /\ [][NextWhorl]_vars

SpecFloralPart == InitFloralPart /\ [][CallFloralPart]_vars

SpecAdnation == InitAdnation /\ [][CallAdnation]_vars

SpecSymmetry == InitSymmetry /\ [][CallSymmetry]_vars

-----------------------------------------------------------------------------
(* Properties *)

\* a notation field that is neither empty nor "-"
Present(s) == s # <<>> /\ s # <<"-">>

\* the three perianth shapes: tepals only; calyx and petals; all three
ValidShape(f) ==
    \/ Present(f.tepals) /\ ~Present(f.calyx) /\ ~Present(f.petals)
    \/ ~Present(f.tepals) /\ Present(f.calyx) /\ Present(f.petals)
    \/ Present(f.tepals) /\ Present(f.calyx) /\ Present(f.petals)

\* the first line of a rendered text
PrimaryLine(text) ==
    IF \E i \in 1..Len(text) : text[i] = "LF"
    THEN SubSeq(text, 1, (CHOOSE i \in 1..Len(text) :
                              /\ text[i] = "LF"
                              /\ \A j \in 1..(i - 1) : text[j] # "LF") - 1)
    ELSE text

\* the 0-based offset of the first occurrence of a character
OffsetOf(text, ch) ==
    (CHOOSE i \in 1..Len(text) :
         /\ text[i] = ch
         /\ \A j \in 1..(i - 1) : text[j] # ch) - 1

\* the column the serializer recorded for a part
Recorded(status, part) ==
    CASE part = "Tepals" -> status.tepals
      [] part = "Calyx" -> status.sepals
      [] part = "Petals" -> status.petals
      [] part = "Stamens" -> status.stamens
      [] part = "Carpels" -> status.carpels

\* the part of a Formula
PartOf(fm, part) ==
    CASE part = "Tepals" -> fm.tepals
      [] part = "Calyx" -> fm.sepals
      [] part = "Petals" -> fm.petals
      [] part = "Stamens" -> fm.stamens
      [] part = "Carpels" -> fm.carpels

\* is the part asserted in the Adnation of the Formula?
Adnate(fm, part) ==
    /\ fm.adnation.parts # None
    /\ \E i \in 1..Len(fm.adnation.parts[1]) : fm.adnation.parts[1][i] = part

\* C1: floral_from_str returns an error whenever the presence pattern of the
\* tepals, calyx and petals fields is not one of the three valid shapes.
C1_InvalidPerianthRejected ==
    (pc \in {"parsed", "rendered"} /\ ~ValidShape(fields)) => ~result.ok

\* C2: for every input for which floral_from_str returns Ok, rendering the
\* Formula completes and yields text: it never panics.
C2_RenderCompletes == pc = "rendered" => output.tag = "Ok"

\* C3: for every part that is in the Adnation set and present in the formula,
\* the recorded column equals the offset of the part's letter in the primary line.
C3_ColumnAtGlyph ==
    (pc = "rendered" /\ output.tag = "Ok") =>
        \A part \in PartSet :
            (Adnate(result.val[1], part) /\ PartOf(result.val[1], part) # None) =>
                Recorded(adnation_status, part) =
                    Some(OffsetOf(PrimaryLine(output.text), Part_fmt(part)[1]))

\* C4: the fields r,2,-,-,2,2,i,berry,- render as `*,T2,A2,` U+0305 `G2;berry`:
\* the combining overline immediately before the letter G.
C4_OverlineBeforeG ==
    (pc = "rendered"
     /\ input = [symmetry |-> "r", tepals |-> "2", calyx |-> "-", petals |-> "-",
                 anthers |-> "2", carpels |-> "2", ovary |-> "i",
                 fruit |-> "berry", adnation |-> "-"]) =>
        output.text = Chars("*,T2,A2,") \o <<"U+0305">> \o Chars("G2;berry")

\* a non-empty string of decimal digits
AllDigits(s) == Len(s) > 0 /\ \A i \in 1..Len(s) : s[i] \in Digits

RECURSIVE Significant(_)
\* a digit string without its leading zeros
Significant(s) == IF Len(s) > 0 /\ s[1] = "0" THEN Significant(Tail(s)) ELSE s

\* the value of a digit string of at most two significant digits
SmallValue(s) ==
    LET sig == Significant(s)
    IN IF Len(sig) = 0 THEN 0
       ELSE IF Len(sig) = 1 THEN DigitVal(sig[1])
       ELSE 10 * DigitVal(sig[1]) + DigitVal(sig[2])

\* does the digit string denote an integer above 30?
Above30(s) == Len(Significant(s)) > 2 \/ SmallValue(s) > 30

\* a decimal integer, with or without a sign
Numeric(s) == AllDigits(s) \/ (Len(s) > 1 /\ s[1] = "+" /\ AllDigits(Tail(s)))

\* C5: `-` and the empty string parse to Finite(0), `inf` to Infinite, `0.5` to
\* Fractional, each integer n in 0..30 to Finite(n), each integer above 30 to
\* Infinite, and any other non-numeric token fails.
C5_NumberParse ==
    ret # None =>
        /\ (arg = <<>> \/ arg = <<"-">>) => ret[1] = Ok(Finite(0))
        /\ arg = Chars("inf") => ret[1] = Ok(Infinite)
        /\ arg = Chars("0.5") => ret[1] = Ok(Fractional)
        /\ (AllDigits(arg) /\ ~Above30(arg)) => ret[1] = Ok(Finite(SmallValue(arg)))
        /\ (AllDigits(arg) /\ Above30(arg)) => ret[1] = Ok(Infinite)
        /\ (~Numeric(arg) /\ arg \notin {<<>>, <<"-">>, Chars("inf"), Chars("0.5")})
               => ~ret[1].ok

\* C6: the field parser returns None iff the field is empty or `-`; every other
\* field that parses returns Some(FloralPart) whose part is the Part passed in.
C6_NoneIffAbsent ==
    (ret # None /\ ret[1].ok) =>
        /\ ret[1].val[1] = None <=> ~Present(arg.s)
        /\ ret[1].val[1] # None => ret[1].val[1][1].part = arg.call[1]

\* the field `0` of the carpels yields Some(FloralPart) of Carpels
C6_Witness ==
    /\ ret # None
    /\ arg.s = <<"0">>
    /\ arg.call[1] = "Carpels"
    /\ ret[1].ok
    /\ ret[1].val[1] # None
    /\ ret[1].val[1][1].part = "Carpels"

\* the value an ovary token stands for
OvaryOf(token) == IF token = <<"s">> THEN "Superior" ELSE "Inferior"

\* C7: the ovary field resolves to Both only when its tokens hold more than one
\* distinct value; a repeated value resolves to that value, a single token to
\* itself, empty or `-` to no ovary, and an unrecognized token fails the field.
C7_BothOnlyIfDistinct ==
    ret # None =>
        LET tokens == Split(arg, ";")
            values == {tokens[i] : i \in 1..Len(tokens)}
        IN IF ~Present(arg) THEN ret[1] = Ok(None)
           ELSE IF \E tok \in values : tok \notin {<<"s">>, <<"i">>} THEN ~ret[1].ok
           ELSE IF Cardinality(values) > 1 THEN ret[1] = Ok(Some("Both"))
           ELSE ret[1] = Ok(Some(OvaryOf(tokens[1])))

\* the nine parse steps of floral_from_str, in the order the code takes them
ParseSteps(f) ==
    <<parse_symmetry(f.symmetry), parse_ovary(f.ovary),
      parse_floral_part_to_enum(f.tepals, "Tepals", None),
      parse_floral_part_to_enum(f.calyx, "Calyx", None),
      parse_floral_part_to_enum(f.petals, "Petals", None),
      parse_floral_part_to_enum(f.anthers, "Stamens", None),
      parse_floral_part_to_enum(f.carpels, "Carpels", None),
      parse_adnation(f.adnation), parse_fruit(f.fruit)>>

\* a present floral-part field one of whose tokens fails to parse
HasFailingToken(s) ==
    /\ Present(s)
    /\ \E i \in 1..Len(Split(s, ";")) :
           LET token == Split(s, ";")[i]
           IN token # <<"c">> /\ token # <<"v">> /\ ~parse_whorl_token(token).ok

\* C8: floral_from_str returns Ok only if every step parses; the first failing
\* step's error is returned with no Formula; a failing token aborts its field
\* without yielding the whorls parsed before it.
C8_FirstFailureAborts ==
    pc \in {"parsed", "rendered"} =>
        LET steps == ParseSteps(fields)
            failed == {i \in 1..Len(steps) : ~steps[i].ok}
        IN /\ result.ok <=> failed = {}
           /\ ~result.ok =>
                  /\ result.val = None
                  /\ result.err = steps[CHOOSE i \in failed :
                                            \A j \in failed : i <= j].err
           /\ result.ok =>
                  /\ result.val[1].symmetry = steps[1].val[1]
                  /\ result.val[1].tepals = steps[3].val[1]
                  /\ result.val[1].sepals = steps[4].val[1]
                  /\ result.val[1].petals = steps[5].val[1]
                  /\ result.val[1].stamens = steps[6].val[1]
                  /\ (result.val[1].carpels = None) <=> (steps[7].val[1] = None)
                  /\ result.val[1].adnation = steps[8].val[1]
                  /\ result.val[1].fruit = steps[9].val[1]
           /\ \A k \in 1..Len(Parts) :
                  HasFailingToken(part_fields(fields)[k]) =>
                      /\ ~result.ok
                      /\ steps[k + 2] = Err(steps[k + 2].err)

\* the tepals field `2;x` fails on its second token and no Formula is returned
C8_Witness ==
    /\ pc = "parsed"
    /\ input.symmetry = "s"
    /\ input.ovary = "s;i"
    /\ input.tepals = "2;x"
    /\ ~result.ok
    /\ result.val = None
    /\ result.err = "ParseInt"

\* the text of a part that is present
PartText(opt) == FloralPart_fmt(opt[1]).text

\* the perianth segment of the three shapes
PerianthSegment(fm) ==
    IF fm.sepals = None THEN <<",">> \o PartText(fm.tepals)
    ELSE IF fm.tepals = None
         THEN <<",">> \o PartText(fm.sepals) \o <<",">> \o PartText(fm.petals)
    ELSE <<",">> \o PartText(fm.tepals) \o <<"[", "o", "r", " ">>
             \o PartText(fm.sepals) \o <<",">> \o PartText(fm.petals) \o <<"]">>

\* `,<part>` if the part is present, no character otherwise
OptionalSegment(opt) == IF opt = None THEN <<>> ELSE <<",">> \o PartText(opt)

\* C9: the primary line is the symmetries joined by ` or `, the perianth segment
\* of the shape, `,<stamens>` if present, `,<carpels>` if present, `;` and the
\* fruit list; absent stamens or carpels contribute no characters.
C9_PrimaryLine ==
    (pc = "rendered" /\ output.tag = "Ok") =>
        LET fm == result.val[1]
        IN PrimaryLine(output.text) =
               Join([i \in 1..Len(fm.symmetry) |-> Symmetry_fmt(fm.symmetry[i])],
                    <<" ", "o", "r", " ">>)
               \o PerianthSegment(fm)
               \o OptionalSegment(fm.stamens)
               \o OptionalSegment(fm.carpels)
               \o <<";">>
               \o Join([i \in 1..Len(fm.fruit) |-> Fruit_fmt(fm.fruit[i])], <<",">>)

\* a rendering of all three perianth parts, stamens and carpels, with two
\* symmetries and a bracket line under the primary line
C9_Witness ==
    /\ pc = "rendered"
    /\ output.tag = "Ok"
    /\ Len(result.val[1].symmetry) = 2
    /\ result.val[1].tepals # None
    /\ result.val[1].sepals # None
    /\ result.val[1].petals # None
    /\ result.val[1].stamens # None
    /\ result.val[1].carpels # None
    /\ PrimaryLine(output.text) # output.text

\* C10: given exactly two recorded columns a < b, the bracket line is a spaces,
\* the open-left glyph at column a, b - a - 1 fill glyphs, the close-right glyph
\* at column b.
C10_TwoColumns ==
    (ret # None /\ Len(merged_only_some(arg)) = 2
     /\ merged_only_some(arg)[1] < merged_only_some(arg)[2]) =>
        LET a == merged_only_some(arg)[1]
            b == merged_only_some(arg)[2]
            glyphs == IF arg.variation THEN CharSetVariable ELSE CharSetConstant
            text == ret[1].text
        IN /\ ret[1].tag = "Ok"
           /\ Len(text) = b + 1
           /\ \A i \in 1..a : text[i] = " "
           /\ text[a + 1] = glyphs[1]
           /\ \A i \in (a + 2)..b : text[i] = glyphs[3]
           /\ Cardinality({i \in 1..Len(text) : text[i] = glyphs[3]}) = b - a - 1
           /\ text[b + 1] = glyphs[2]

\* columns (2, 9) under the invariant set: 2 spaces, open, 6 fills, close
C10_Witness ==
    /\ ret # None
    /\ merged_only_some(arg) = <<2, 9>>
    /\ ~arg.variation
    /\ ret[1].text = <<" ", " ", "U+2570", "U+2500", "U+2500", "U+2500", "U+2500",
                       "U+2500", "U+2500", "U+256F">>

\* are the columns strictly increasing?
StrictlyIncreasing(cols) == \A i \in 1..(Len(cols) - 1) : cols[i] < cols[i + 1]

\* C11: given three or more strictly increasing columns c0 < ... < ck, the bracket
\* line has c0 leading spaces, the open-left glyph at c0, the junction glyph at
\* every interior column, the close-right glyph at ck, fill at every other column
\* between c0 and ck, and length ck + 1.
C11_Junctions ==
    (ret # None /\ Len(merged_only_some(arg)) >= 3
     /\ StrictlyIncreasing(merged_only_some(arg))) =>
        LET cols == merged_only_some(arg)
            k == Len(cols)
            glyphs == IF arg.variation THEN CharSetVariable ELSE CharSetConstant
            text == ret[1].text
        IN /\ ret[1].tag = "Ok"
           /\ Len(text) = cols[k] + 1
           /\ \A i \in 1..Len(text) :
                  text[i] = IF i - 1 < cols[1] THEN " "
                            ELSE IF i - 1 = cols[1] THEN glyphs[1]
                            ELSE IF i - 1 = cols[k] THEN glyphs[2]
                            ELSE IF \E j \in 2..(k - 1) : cols[j] = i - 1 THEN glyphs[4]
                            ELSE glyphs[3]

\* columns (2, 4, 5, 9) under the variable set: two adjacent interior junctions
C11_Witness ==
    /\ ret # None
    /\ merged_only_some(arg) = <<2, 4, 5, 9>>
    /\ arg.variation
    /\ ret[1].text = <<" ", " ", "U+2514", "U+2504", "U+2534", "U+2534", "U+2504",
                       "U+2504", "U+2504", "U+2518">>

\* does the text hold a newline?
HasNewline(text) == \E i \in 1..Len(text) : text[i] = "LF"

\* the text after the first newline
BracketLine(text) ==
    IF HasNewline(text)
    THEN SubSeq(text, Len(PrimaryLine(text)) + 2, Len(text))
    ELSE <<>>

\* the glyphs of a 4-glyph set
Glyphs(set) == {set[i] : i \in 1..Len(set)}

\* C12: a rendered Formula holds a second line (a newline and the bracket line)
\* iff at least two adnate parts recorded a column, one column per part that is
\* both in the Adnation set and present; with fewer the output is the primary
\* line alone, with no newline and no bracket glyph.
C12_SecondLineIffTwoColumns ==
    (pc = "rendered" /\ output.tag = "Ok") =>
        LET cols == merged_only_some(adnation_status)
            fm == result.val[1]
        IN /\ Len(cols) = Cardinality({part \in PartSet :
                              Adnate(fm, part) /\ PartOf(fm, part) # None})
           /\ HasNewline(output.text) <=> Len(cols) >= 2
           /\ Len(cols) >= 2 =>
                  /\ BracketLine(output.text) # <<>>
                  /\ ~HasNewline(BracketLine(output.text))
           /\ Len(cols) < 2 =>
                  /\ output.text = PrimaryLine(output.text)
                  /\ \A i \in 1..Len(output.text) :
                         output.text[i] \notin Glyphs(CharSetConstant)
                                               \cup Glyphs(CharSetVariable)

\* the Adnation set names Tepals and Carpels, the formula has no tepals: one
\* column is recorded and no second line is written
C12_Witness ==
    /\ pc = "rendered"
    /\ output.tag = "Ok"
    /\ input.adnation = "T;G"
    /\ result.val[1].tepals = None
    /\ result.val[1].carpels # None
    /\ Len(merged_only_some(adnation_status)) = 1
    /\ ~HasNewline(output.text)

\* C13: every glyph of a bracket line after the leading spaces comes from the one
\* set Adnation.variation selects; no open, close or fill glyph of the other set
\* appears.
C13_OneGlyphSet ==
    (pc = "rendered" /\ output.tag = "Ok" /\ HasNewline(output.text)) =>
        LET line == BracketLine(output.text)
            variation == result.val[1].adnation.variation
            own == IF variation THEN CharSetVariable ELSE CharSetConstant
            other == IF variation THEN CharSetConstant ELSE CharSetVariable
        IN \A i \in 1..Len(line) :
               /\ line[i] \in Glyphs(own) \cup {" "}
               /\ line[i] \notin {other[1], other[2], other[3]}
               /\ line[i] = " " => \A j \in 1..i : line[j] = " "

\* a variable adnation of tepals, stamens and carpels: open, junction, close and
\* fill of the variable set
C13_Witness ==
    /\ pc = "rendered"
    /\ output.tag = "Ok"
    /\ result.val[1].adnation.variation
    /\ Len(merged_only_some(adnation_status)) >= 3
    /\ \A g \in Glyphs(CharSetVariable) :
           \E i \in 1..Len(BracketLine(output.text)) : BracketLine(output.text)[i] = g

\* the ovary diacritic of a FloralPart
Diacritic(ovary) ==
    IF ovary = None THEN <<>>
    ELSE CASE ovary[1] = "Superior" -> <<"U+0332">>
           [] ovary[1] = "Inferior" -> <<"U+0305">>
           [] ovary[1] = "Both" -> <<"U+0305", "U+0332">>

C15_WhorlText ==
    (ret # None /\ ret[1].ok /\ output # NoOutput) =>
        LET w == ret[1].val[1]
            count == IF w.number # None THEN FloralPartNumber_fmt(w.number[1])
                     ELSE FloralPartNumber_fmt(w.min[1]) \o <<"-">>
                              \o FloralPartNumber_fmt(w.max[1])
            body == count \o (IF w.sterile = "Sterile" THEN <<"U+2022">> ELSE <<>>)
        IN /\ (w.connation /\ w.connation_variation) =>
                  output = Written(<<"(">> \o body \o <<"]">>)
           /\ (w.connation /\ ~w.connation_variation) =>
                  output = Written(<<"(">> \o body \o <<")">>)
           /\ (~w.connation /\ ~w.connation_variation) => output = Written(body)
           /\ arg = Chars("8-11c") => output.text = Chars("(8-11)")
           /\ arg = <<"5", "s">> => output.text = <<"5", "U+2022">>

\* the token `5cv` renders `(5]`
C15_Witness ==
    /\ ret # None
    /\ arg = <<"5", "c", "v">>
    /\ output = Written(<<"(", "5", "]">>)

\* the record r,2,2,2,2,2,i,berry,T;A;G
TepalsOrCalyxPetalsExample ==
    [symmetry |-> "r", tepals |-> "2", calyx |-> "2", petals |-> "2",
     anthers |-> "2", carpels |-> "2", ovary |-> "i", fruit |-> "berry",
     adnation |-> "T;A;G"]

\* the bracket line drawn under the given columns of the primary line: open at
\* the first, close at the last, a junction at each one between, fill elsewhere
DrawnUnder(bracket, columns) ==
    /\ Len(bracket) = columns[Len(columns)] + 1
    /\ \A i \in 1..Len(bracket) :
           bracket[i] = IF i - 1 < columns[1] THEN " "
                        ELSE IF i - 1 = columns[1] THEN "U+2570"
                        ELSE IF i - 1 = columns[Len(columns)] THEN "U+256F"
                        ELSE IF \E j \in 1..Len(columns) : columns[j] = i - 1
                             THEN "U+2534"
                        ELSE "U+2500"

\* C16 as stated: for r,2,2,2,2,2,i,berry,T;A;G the perianth renders as
\* `T2[or K2,C2]` and the bracket line has bracket glyphs under T and G only,
\* with nothing but fill between them.
C16_BracketsUnderTAndG ==
    (pc = "rendered" /\ input = TepalsOrCalyxPetalsExample) =>
        LET line == PrimaryLine(output.text)
        IN /\ output.tag = "Ok"
           /\ SubSeq(line, 3, 14) = Chars("T2[or K2,C2]")
           /\ DrawnUnder(BracketLine(output.text),
                         <<OffsetOf(line, "T"), OffsetOf(line, "G")>>)

\* C16 amended: for r,2,2,2,2,2,i,berry,T;A;G the perianth renders as
\* `T2[or K2,C2]` and the bracket line has the open glyph under T, a junction
\* under A and the close glyph under G, with nothing but fill across the
\* bracketed `[or K2,C2]` alternative.
C16_BracketsUnderTAG ==
    (pc = "rendered" /\ input = TepalsOrCalyxPetalsExample) =>
        LET line == PrimaryLine(output.text)
        IN /\ output.tag = "Ok"
           /\ SubSeq(line, 3, 14) = Chars("T2[or K2,C2]")
           /\ DrawnUnder(BracketLine(output.text),
                         <<OffsetOf(line, "T"), OffsetOf(line, "A"),
                           OffsetOf(line, "G")>>)
           /\ \A i \in 4..14 : BracketLine(output.text)[i] = "U+2500"

\* the example rendered: columns 2, 15 and 18
C16_Witness ==
    /\ pc = "rendered"
    /\ input = TepalsOrCalyxPetalsExample
    /\ output.text = Chars("*,T2[or K2,C2],A2,G") \o <<"U+0305">> \o Chars("2;berry")
                     \o <<"LF", " ", " ", "U+2570">> \o Repeat("U+2500", 12)
                     \o <<"U+2534", "U+2500", "U+2500", "U+256F">>

\* the letters of the five parts
PartLetters == {<<"T">>, <<"K">>, <<"C">>, <<"A">>, <<"G">>}

\* the Part a letter names
PartNamed(letter) ==
    CASE letter = <<"T">> -> "Tepals"
      [] letter = <<"K">> -> "Calyx"
      [] letter = <<"C">> -> "Petals"
      [] letter = <<"A">> -> "Stamens"
      [] letter = <<"G">> -> "Carpels"

\* C17: an empty or `-` adnation field yields the default Adnation; otherwise
\* each token `v` sets variation and adds no part, every other token must be
\* one of T, K, C, A, G and is added to the fused parts, and any other token
\* fails the field.
C17_AdnationField ==
    ret # None =>
        LET tokens == Split(arg, ";")
            named == {i \in 1..Len(tokens) : tokens[i] # <<"v">>}
        IN IF ~Present(arg)
           THEN ret[1] = Ok([variation |-> FALSE, parts |-> None])
           ELSE IF \E i \in named : tokens[i] \notin PartLetters THEN ~ret[1].ok
           ELSE /\ ret[1].ok
                /\ ret[1].val[1].variation <=> (\E i \in 1..Len(tokens) : tokens[i] = <<"v">>)
                /\ (ret[1].val[1].parts = None) <=> (named = {})
                /\ named # {} =>
                       {ret[1].val[1].parts[1][i] :
                            i \in 1..Len(ret[1].val[1].parts[1])}
                           = {PartNamed(tokens[i]) : i \in named}

\* the field `v;T;K;C;A;G`: variation set, the five parts added
C17_Witness ==
    /\ ret # None
    /\ arg = Chars("v;T;K;C;A;G")
    /\ ret[1].ok
    /\ ret[1].val[1].variation
    /\ ret[1].val[1].parts = Some(Parts)

\* the symmetry tokens: r, a, s, d and the eight direction words
SymmetryTokens ==
    {Chars("r"), Chars("a"), Chars("s"), Chars("d"), Chars("up"), Chars("down"),
     Chars("left"), Chars("right"), Chars("upleft"), Chars("upright"),
     Chars("downleft"), Chars("downright")}

\* C18: the symmetry list of a parsed record is non-empty and holds one Symmetry
\* per semicolon-separated token in token order; an empty field, or any token
\* outside r, a, s, d and the eight direction words, makes parsing fail.
C18_SymmetryList ==
    ret # None =>
        LET tokens == Split(arg, ";")
        IN /\ ret[1].ok <=> (\A i \in 1..Len(tokens) : tokens[i] \in SymmetryTokens)
           /\ arg = <<>> => ~ret[1].ok
           /\ ret[1].ok =>
                  /\ Len(ret[1].val[1]) = Len(tokens)
                  /\ Len(ret[1].val[1]) >= 1
                  /\ \A i \in 1..Len(tokens) :
                         Ok(ret[1].val[1][i]) = Symmetry_from_str(tokens[i])

\* the field `r;down;d`: three symmetries in token order
C18_Witness ==
    /\ ret # None
    /\ arg = Chars("r;down;d")
    /\ ret[1] = Ok(<<Sym("Radial", ""), Sym("Bilateral", "Down"), Sym("Disymmetric", "")>>)

\* C19: every Whorl the floral-part field parser produces satisfies
\* connation_variation => connation; a token with `v` and no `c` is rejected.
C19_WhorlVariationNeedsConnation ==
    (ret # None /\ ret[1].ok /\ ret[1].val[1] # None) =>
        \A i \in 1..Len(ret[1].val[1][1].whorls) :
            ret[1].val[1][1].whorls[i].connation_variation
                => ret[1].val[1][1].whorls[i].connation

\* C20: every FloralPart the field parser returns satisfies
\* connation_variation => connate.
C20_PartVariationNeedsConnate ==
    (ret # None /\ ret[1].ok /\ ret[1].val[1] # None) =>
        (ret[1].val[1][1].connation_variation => ret[1].val[1][1].connate)

\* the FloralPart a call of the field parser returned as Some
Returned == ret[1].val[1][1]

\* did the field parser return Some(FloralPart)?
ReturnedSome == ret # None /\ ret[1].ok /\ ret[1].val[1] # None

\* C21: every FloralPart returned as Some by the field parser holds at least one
\* whorl, including for fields made only of flag tokens such as `c`, `v`, `c;v`.
C21_AtLeastOneWhorl == ReturnedSome => Len(Returned.whorls) >= 1

\* a text without its characters s, c and v
Stripped(text) == SelectSeq(text, LAMBDA ch : ch \notin {"s", "c", "v"})

\* the whorl the notation gives a count or range token: flags from the letters
\* anywhere in the token, numbers from the text left on each side
TokenWhorl(token) ==
    LET sides == Split(token, "-")
    IN [number |-> IF Contains(token, "-") THEN None
                   ELSE Some(FloralPartNumber_from_str(Stripped(token)).val[1]),
        min |-> IF Contains(token, "-")
                THEN Some(FloralPartNumber_from_str(Stripped(sides[1])).val[1])
                ELSE None,
        max |-> IF Contains(token, "-")
                THEN Some(FloralPartNumber_from_str(Stripped(sides[2])).val[1])
                ELSE None,
        sterile |-> IF Contains(token, "s") THEN "Sterile" ELSE "Fertile",
        connation |-> Contains(token, "c"),
        connation_variation |-> Contains(token, "v")]

\* do the numbers of a count or range token parse once s, c and v are removed?
TokenParses(token) ==
    IF Contains(token, "-")
    THEN /\ FloralPartNumber_from_str(Stripped(Split(token, "-")[1])).ok
         /\ FloralPartNumber_from_str(Stripped(Split(token, "-")[2])).ok
    ELSE FloralPartNumber_from_str(Stripped(token)).ok

\* the tokens of a field that are not exactly `c` or `v`, in token order
WhorlTokensOf(field) ==
    SelectSeq(Split(field, ";"), LAMBDA token : token # <<"c">> /\ token # <<"v">>)

\* C22: in a count or range token each of s, c, v anywhere in the token sets
\* sterile, connation, connation_variation on the one whorl of that token and on
\* no other whorl, and is removed before each number is parsed: the whorl's count
\* or (min, max) is the parse of the remaining numeric text.
C22_TokenFlags ==
    (ret # None /\ Present(arg.s)) =>
        LET tokens == WhorlTokensOf(arg.s)
        IN /\ ret[1].ok <=> \A k \in 1..Len(tokens) : TokenParses(tokens[k])
           /\ ret[1].ok =>
                  /\ Len(Returned.whorls) = Len(tokens)
                  /\ \A k \in 1..Len(tokens) :
                         Returned.whorls[k] = TokenWhorl(tokens[k])

\* the field `2c;2`: the first whorl connate, the second not
C22_Witness ==
    /\ ReturnedSome
    /\ arg.s = <<"2", "c", ";", "2">>
    /\ Returned.whorls =
           <<Whorl_new(Some(Finite(2)), None, None, FALSE, TRUE, FALSE),
             Whorl_new(Some(Finite(2)), None, None, FALSE, FALSE, FALSE)>>

\* C23: a token exactly `c` (or `v`) changes only the part-level connate (or
\* connation_variation) flag and appends no whorl; a flag letter inside a count
\* or range token changes only that whorl; the whorls are those of the tokens
\* that are not exactly `c` or `v`, in token order.
C23_FlagTokens ==
    ReturnedSome =>
        LET tokens == Split(arg.s, ";")
            counted == WhorlTokensOf(arg.s)
        IN /\ Returned.connate <=> \E i \in 1..Len(tokens) : tokens[i] = <<"c">>
           /\ Returned.connation_variation
                  <=> \E i \in 1..Len(tokens) : tokens[i] = <<"v">>
           /\ Len(Returned.whorls) = Len(counted)
           /\ \A k \in 1..Len(counted) :
                  Ok(Returned.whorls[k]) = parse_whorl_token(counted[k])
           /\ Returned.part = arg.call[1]
           /\ Returned.ovary = arg.call[2]

\* the field `2c;c`: one whorl, connate by its own letter, and a connate part
C23_Witness ==
    /\ ReturnedSome
    /\ arg.s = <<"2", "c", ";", "c">>
    /\ Returned.connate
    /\ ~Returned.connation_variation
    /\ Returned.whorls = <<Whorl_new(Some(Finite(2)), None, None, FALSE, TRUE, FALSE)>>

\* C24: every decimal integer above 30 parses to Infinite whatever its
\* magnitude, at and beyond the 32-bit unsigned limit; no all-digit token yields
\* an error.
C24_LargeIntegers ==
    (ret # None /\ AllDigits(arg)) =>
        /\ ret[1].ok
        /\ Above30(arg) => ret[1] = Ok(Infinite)

\* the parts of a set in canonical organ order
Canonical(set) == SelectSeq(Parts, LAMBDA part : part \in set)

\* C25: after an adnation field is parsed the parts collection holds each
\* asserted Part once, in canonical organ order, whatever the order or
\* repetition of the tokens.
C25_CanonicalParts ==
    (ret # None /\ ret[1].ok /\ ret[1].val[1].parts # None) =>
        ret[1].val[1].parts[1] =
            Canonical({ret[1].val[1].parts[1][i] :
                           i \in 1..Len(ret[1].val[1].parts[1])})

\* C28: every Whorl the field parser produces has exactly one shape: number set
\* with min and max unset (count token), or min and max set with number unset
\* (token containing `-`).
C28_OneShape ==
    ReturnedSome =>
        LET counted == WhorlTokensOf(arg.s)
        IN /\ Len(Returned.whorls) = Len(counted)
           /\ \A k \in 1..Len(Returned.whorls) :
                  LET w == Returned.whorls[k]
                  IN IF Contains(counted[k], "-")
                     THEN w.number = None /\ w.min # None /\ w.max # None
                     ELSE w.number # None /\ w.min = None /\ w.max = None

\* the field `2;-2`: a count whorl and a range whorl
C28_Witness ==
    /\ ReturnedSome
    /\ arg.s = <<"2", ";", "-", "2">>
    /\ Returned.whorls[1].number = Some(Finite(2))
    /\ Returned.whorls[2].number = None
    /\ Returned.whorls[2].min = Some(Finite(0))
    /\ Returned.whorls[2].max = Some(Finite(2))

-----------------------------------------------------------------------------
(* The whole record: ovary placement and recorded columns *)

\* the combining marks an ovary is written with
OvaryMarks == {"U+0305", "U+0332"}

\* every ovary mark of a text stands right after `G`, or after the overline
\* that stands right after `G`
MarksOnlyOnG(text) ==
    \A i \in 1..Len(text) :
        text[i] \in OvaryMarks =>
            \/ i > 1 /\ text[i - 1] = "G"
            \/ i > 2 /\ text[i] = "U+0332" /\ text[i - 1] = "U+0305"
                     /\ text[i - 2] = "G"

\* C27: in every Formula floral_from_str returns, the tepals, calyx, petals and
\* stamens parts have no ovary and the carpels part, when present, has the
\* value parse_ovary gave for the ovary field; so in the rendered text an ovary
\* diacritic stands on no letter other than G.
C27_OvaryOnlyOnCarpels ==
    /\ result.ok =>
           /\ \A part \in PartSet \ {"Carpels"} :
                  PartOf(result.val[1], part) # None =>
                      PartOf(result.val[1], part)[1].ovary = None
           /\ result.val[1].carpels # None =>
                  result.val[1].carpels[1].ovary = parse_ovary(fields.ovary).val[1]
    /\ (pc = "rendered" /\ output.tag = "Ok") => MarksOnlyOnG(output.text)

\* a rendered record with tepals, stamens and inferior carpels: the overline is
\* in the text, and only the carpels part has an ovary
C27_Witness ==
    /\ pc = "rendered"
    /\ output.tag = "Ok"
    /\ input.ovary = "i"
    /\ result.val[1].tepals # None
    /\ result.val[1].stamens # None
    /\ result.val[1].carpels # None
    /\ result.val[1].carpels[1].ovary = Some("Inferior")
    /\ \E i \in 1..Len(output.text) : output.text[i] = "U+0305"

\* the columns recorded for the adnate parts, in the order Tepals, Calyx,
\* Petals, Stamens, Carpels
RecordedColumns(fm, status) ==
    LET at(k) == IF Adnate(fm, Parts[k]) THEN Recorded(status, Parts[k]) ELSE None
    IN at(1) \o at(2) \o at(3) \o at(4) \o at(5)

\* C29: for every Formula floral_from_str returns, the columns the serializer
\* records for the adnate parts are strictly increasing in the order Tepals,
\* Calyx, Petals, Stamens, Carpels, whatever the perianth shape, the connate
\* flags and the whorl lists.
C29_ColumnsIncrease ==
    (pc = "rendered" /\ output.tag = "Ok") =>
        StrictlyIncreasing(RecordedColumns(result.val[1], adnation_status))

\* the parts asserted in the Adnation of a Formula
AssertedParts(fm) ==
    IF fm.adnation.parts = None THEN {}
    ELSE {fm.adnation.parts[1][i] : i \in 1..Len(fm.adnation.parts[1])}

\* C26: when the columns handed to the bracket renderer are not strictly
\* increasing, or are fewer than the parts asserted in Adnation, rendering
\* reports an error: it neither emits a text nor leaves the bracket out.
C26_ColumnRenderError ==
    (/\ pc = "rendered"
     /\ \/ ~StrictlyIncreasing(merged_only_some(adnation_status))
        \/ Len(merged_only_some(adnation_status))
               < Cardinality(AssertedParts(result.val[1]))) =>
        output.tag = "Err"

-----------------------------------------------------------------------------
(* cli.rs: parse_args, DataFormatter, did_you_mean *)

\* the letters of the names, in the order of their code points
Letters == Chars("ABCDEFGHIJKLMNOPQRSTUVWXYZabcdefghijklmnopqrstuvwxyz")

\* the rank of a letter among the code points
CharCode(c) == CHOOSE i \in 1..Len(Letters) : Letters[i] = c

\* str::to_lowercase
to_lowercase(s) ==
    [i \in 1..Len(s) |->
        IF CharCode(s[i]) <= 26 THEN Letters[CharCode(s[i]) + 26] ELSE s[i]]

\* char::to_uppercase
to_uppercase(c) == IF CharCode(c) > 26 THEN Letters[CharCode(c) - 26] ELSE c

\* fn some_kind_of_uppercase_first_letter
some_kind_of_uppercase_first_letter(s) ==
    IF s = <<>> THEN <<>> ELSE <<to_uppercase(s[1])>> \o Tail(s)

\* the inner loop of lev_distance over b.chars(); dcol[x] is kept at index x + 1
RECURSIVE lev_inner(_, _, _, _, _)
lev_inner(sc, b, j, current, dcol) ==
    IF j > Len(b) THEN dcol
    ELSE IF sc = b[j]
         THEN lev_inner(sc, b, j + 1, dcol[j + 1], [dcol EXCEPT ![j + 1] = current])
         ELSE lev_inner(sc, b, j + 1, dcol[j + 1],
                        [dcol EXCEPT ![j + 1] =
                            (IF (IF current < dcol[j + 1] THEN current ELSE dcol[j + 1]) < dcol[j]
                             THEN (IF current < dcol[j + 1] THEN current ELSE dcol[j + 1])
                             ELSE dcol[j]) + 1])

\* the outer loop of lev_distance over a.chars(); dcol always holds
\* b.chars().count() + 1 entries, and taking its length evaluates the row the
\* inner loop left before the next iteration starts
RECURSIVE lev_outer(_, _, _, _)
lev_outer(a, b, i, dcol) ==
    IF i > Len(a) \/ Len(dcol) # Len(b) + 1 THEN dcol[Len(b) + 1]
    ELSE lev_outer(a, b, i + 1, lev_inner(a[i], b, 1, i - 1, [dcol EXCEPT ![1] = i]))

\* fn lev_distance with limit = usize::max_value(), as levenshtein_distance
\* calls it: the limit is never exceeded
lev_distance(a, b) ==
    IF Len(a) = 0 \/ Len(b) = 0
    THEN (IF Len(a) < Len(b) THEN Len(b) - Len(a) ELSE Len(a) - Len(b))
    ELSE lev_outer(a, b, 1, [x \in 1..(Len(b) + 1) |-> x - 1])

\* fn levenshtein_distance
levenshtein_distance(a, b) == lev_distance(a, b)

\* Ord for String: byte-wise lexicographic
RECURSIVE str_lt(_, _, _)
str_lt(a, b, i) ==
    IF i > Len(a) THEN i <= Len(b)
    ELSE IF i > Len(b) THEN FALSE
    ELSE IF a[i] = b[i] THEN str_lt(a, b, i + 1)
    ELSE CharCode(a[i]) < CharCode(b[i])

\* Ord for (usize, String)
match_le(m, o) == m[1] < o[1] \/ (m[1] = o[1] /\ (m[2] = o[2] \/ str_lt(m[2], o[2], 1)))

\* possible_matches.sort() and into_iter().next(): the least match
first_sorted(possible_matches) ==
    IF possible_matches = <<>> THEN None
    ELSE Some(possible_matches[CHOOSE k \in 1..Len(possible_matches) :
                  \A o \in 1..Len(possible_matches) :
                      match_le(possible_matches[k], possible_matches[o])])

\* fn did_you_mean
did_you_mean(possibilities, tried) ==
    first_sorted([k \in 1..Len(possibilities) |->
                     <<levenshtein_distance(to_lowercase(possibilities[k]),
                                            to_lowercase(tried)),
                       possibilities[k]>>])

\* a record of the data map: its key and an identifier of its Formula
DataRecord(order, family, flower_type, formula) ==
    [order |-> Chars(order), family |-> Chars(family),
     flower_type |-> flower_type, formula |-> formula]

\* parse_data(): the map built from assets/formulae.csv, which is compiled
\* into the binary; records stand in the order of the BTreeMap's keys
\* (order, family, FlowerType).  The table is an input of the model.
DataTables ==
    {<<>>,
     <<DataRecord("Poales", "Poaceae", "Bisexual", "formula 1")>>,
     <<DataRecord("Fagales", "Fagaceae", "Carpellate", "formula 2"),
       DataRecord("Fagales", "Fagaceae", "Staminate", "formula 3"),
       DataRecord("Poales", "Poaceae", "Bisexual", "formula 1"),
       DataRecord("Rosales", "Rosaceae", "Bisexual", "formula 4")>>}

\* let data_keys: the orders with --order, the families without
data_keys(data, cli_order) ==
    [k \in 1..Len(data) |-> IF cli_order THEN data[k].order ELSE data[k].family]

\* the most free arguments on a command line
MaxInputs == 2

\* the free arguments a command line is made of
InputWords == {<<>>, Chars("fagaceae"), Chars("rosales"), Chars("Zingiberaceae")}

\* the command lines: the flags and the free arguments
CommandLines ==
    [help : BOOLEAN, version : BOOLEAN, cli_all : BOOLEAN, cli_explain : BOOLEAN,
     cli_order : BOOLEAN, print_data : BOOLEAN,
     free : UNION {[1..n -> InputWords] : n \in 0..MaxInputs}]

\* DataFormatter::new
DataFormatter_new(cli_all, cli_order, cli_explain, fo_string, record) ==
    [cli_all |-> cli_all, cli_order |-> cli_order, cli_explain |-> cli_explain,
     fo_string |-> fo_string, order |-> record.order, family |-> record.family,
     flower_type |-> record.flower_type, formula |-> record.formula]

\* the closure format_formula of DataFormatter::print, applied to the
\* formatter's fields
format_formula(d) ==
    IF d.cli_explain
    THEN <<"explain", d.order, some_kind_of_uppercase_first_letter(d.family), d.formula>>
    ELSE <<"formula", d.order, some_kind_of_uppercase_first_letter(d.family),
           d.flower_type, d.formula>>

\* the string `out` of DataFormatter::print_tsv
tsv_line(d) == <<"tsv", d.order, d.family, d.flower_type, d.formula>>

\* the println! calls that end print and print_tsv: one for --all, one for the
\* record whose order or family is fo_string
print_lines(d, text) ==
    (IF d.cli_all THEN <<text>> ELSE <<>>)
    \o (IF d.cli_order
        THEN (IF d.fo_string = d.order THEN <<text>> ELSE <<>>)
        ELSE (IF d.fo_string = d.family THEN <<text>> ELSE <<>>))

\* DataFormatter::print
DataFormatter_print(d) == print_lines(d, format_formula(d))

\* DataFormatter::print_tsv
DataFormatter_print_tsv(d) == print_lines(d, tsv_line(d))

InitCli ==
    /\ pc = "args"
    /\ input \in DataTables
    /\ result = NoResult
    /\ output = <<>>
    /\ adnation_status = AdnationIndex_default
    /\ fn = "parse_args"
    /\ arg \in CommandLines
    /\ ret = None

\* parse_args up to the loop over the inputs: --help and --version exit, no
\* free argument is the input "" with --all and the help text without it, and
\* --data prints the header
ReadArgs ==
    /\ pc = "args"
    /\ IF arg.help THEN /\ output' = <<"help">>
                        /\ pc' = "exit"
                        /\ ret' = ret
       ELSE IF arg.version THEN /\ output' = <<"version">>
                                /\ pc' = "exit"
                                /\ ret' = ret
       ELSE IF arg.free = <<>> /\ ~arg.cli_all THEN /\ output' = <<"help">>
                                                    /\ pc' = "exit"
                                                    /\ ret' = ret
       ELSE /\ output' = IF arg.print_data THEN <<"header">> ELSE <<>>
            /\ pc' = "inputs"
            /\ ret' = [inputs |-> IF arg.free = <<>> THEN << <<>> >> ELSE arg.free,
                       i |-> 1, k |-> 0, fo_string |-> <<>>]
    /\ UNCHANGED <<input, result, adnation_status, fn, arg>>

\* what one iteration of `for input_str in inputs` does before the records
\* are visited, given what did_you_mean returned
input_step(input_str, found) ==
    IF found = None
    THEN /\ ret' = [ret EXCEPT !.i = @ + 1]
         /\ UNCHANGED <<pc, result>>
    ELSE IF found[1][1] >= 4 /\ input_str # <<>>
    THEN /\ pc' = "error"
         /\ result' = Err("GenericCli")
         /\ ret' = ret
    ELSE /\ pc' = "records"
         /\ ret' = [ret EXCEPT !.k = 1, !.fo_string = found[1][2]]
         /\ result' = result

\* the head of the loop over the inputs; Ok(()) after the last input
NextInput ==
    /\ pc = "inputs"
    /\ IF ret.i > Len(ret.inputs)
       THEN /\ pc' = "done"
            /\ result' = Ok(<<>>)
            /\ ret' = ret
       ELSE input_step(ret.inputs[ret.i],
                       did_you_mean(data_keys(input, arg.cli_order), ret.inputs[ret.i]))
    /\ UNCHANGED <<input, output, adnation_status, fn, arg>>

\* one iteration of the loop over the records of the data map
PrintRecord ==
    /\ pc = "records"
    /\ IF ret.k > Len(input)
       THEN /\ pc' = "inputs"
            /\ ret' = [ret EXCEPT !.i = @ + 1]
            /\ output' = output
       ELSE /\ output' = output \o
                (IF arg.print_data
                 THEN DataFormatter_print_tsv(
                          DataFormatter_new(arg.cli_all, arg.cli_order, arg.cli_explain,
                                            ret.fo_string, input[ret.k]))
                 ELSE DataFormatter_print(
                          DataFormatter_new(arg.cli_all, arg.cli_order, arg.cli_explain,
                                            ret.fo_string, input[ret.k])))
            /\ ret' = [ret EXCEPT !.k = @ + 1]
            /\ pc' = pc
    /\ UNCHANGED <<input, result, adnation_status, fn, arg>>

NextCli == ReadArgs \/ NextInput \/ PrintRecord

SpecCli == InitCli /\ [][NextCli]_vars

\* the text the run prints for a record of the data map
RecordText(record) ==
    IF arg.print_data
    THEN tsv_line(DataFormatter_new(arg.cli_all, arg.cli_order, arg.cli_explain,
                                    <<>>, record))
    ELSE format_formula(DataFormatter_new(arg.cli_all, arg.cli_order, arg.cli_explain,
                                          <<>>, record))

\* how many times a text was printed
Printed(text) == Cardinality({j \in 1..Len(output) : output[j] = text})

\* C30: with --all, when parse_args returns Ok every record of the data map
\* has been printed exactly once per input string, by print and by print_tsv,
\* whichever family or order the fuzzy match selected.
C30_OncePerInput ==
    (pc = "done" /\ arg.cli_all) =>
        \A k \in 1..Len(input) :
            Printed(RecordText(input[k])) = Len(ret.inputs)

====
